---------------------------- MODULE Spec2Model ----------------------------
(***************************************************************************)
(* A model of rekall/plugins/response/forensic_artifacts.py: the collector *)
(* (ArtifactsCollector.collect / collect_artifact and the sources' apply   *)
(* generators), pulled one item at a time by its consumer; the field       *)
(* validation of the sources and definitions; the query source's apply;    *)
(* and the construction of a collector over a loaded profile.              *)
(***************************************************************************)
EXTENDS Integers, Sequences, FiniteSets, TLC

VARIABLES
    definitions_by_name,  \* ArtifactProfile.definitions_by_name: name -> definition
    supported_os,         \* ArtifactsCollector.supported_os: the collector's platform
    artifacts,            \* plugin_args.artifacts: the requested names, in order
    seen,                 \* ArtifactsCollector.seen
    stack,                \* the suspended generator frames of the run, innermost last
    status,               \* "running" | "done" (StopIteration) | "error" (exception)
    out,                  \* what the consumer has pulled so far
    calls,                \* history: the names collect_artifact was entered with
    applied,              \* history: <<artifact, source index>> of every apply entered
    cls,                  \* the validated class being constructed
    data,                 \* the raw mapping given to its constructor
    validated,            \* what the constructor made of it: the object, or the error
    efilter,              \* the RekallEFilterArtifacts source whose apply is running
    matches,              \* what search.solve() returns for its query, in order
    apply_result,         \* the ArtifactResult that apply is filling (its result)
    match_i,              \* how many matches apply has been through
    apply_status,         \* "idle" | "called" | "solving" | "yielded" | "done" | an exception
    yielded,              \* what apply has yielded to its consumer
    session,              \* the session: live mode, the profile's os, platform.system()
    art_definitions,      \* the raw definitions of the artifacts profile, in order
    plugin_definitions,   \* plugin_args.definitions: the inline raw definitions
    profile,              \* the ArtifactProfile: definitions and definitions_by_name
    pc,                   \* where the construction of the collector stands
    load_i,               \* how many raw definitions the running loop has been through
    exception,            \* the exception that ended the construction, "" if none
    streams,              \* the collect() generators started on one collector, by number
    active                \* the stream whose pull is under way, 0 between pulls

collectorVars == <<definitions_by_name, supported_os, artifacts, seen, stack, status,
                   out, calls, applied>>
validatorVars == <<cls, data, validated>>
queryVars == <<efilter, matches, apply_result, match_i, apply_status, yielded>>
loaderVars == <<session, art_definitions, plugin_definitions, profile, pc, load_i,
                exception>>

streamVars == <<streams, active>>

vars == <<collectorVars, validatorVars, queryVars, loaderVars, streamVars>>

-----------------------------------------------------------------------------
(* Bounds of the model. *)
MaxSources == 2
MaxGroupLen == 2
MaxRequest == 2

(* The consumer stops pulling after MaxOut items; no run of the bounded    *)
(* registries comes near it (see OutBelowCap).                             *)
MaxOut == 2 * (MaxSources + 2) + MaxRequest

-----------------------------------------------------------------------------
(* Names and platforms. *)
SUPPORTED_OS == {"Darwin", "Linux", "Windows"}

DefinedNames == {"X", "G"}
AllNames == DefinedNames \cup {"U"}

SeqsUpTo(S, n) == UNION {[1..k -> S] : k \in 1..n}

OsChoices == {SUPPORTED_OS, {"Darwin", "Windows"}}

FileSource(os) ==
    [type_indicator |-> "FILE", supported_os |-> os, names |-> <<>>]

GroupSource(ns) ==
    [type_indicator |-> "ARTIFACT_GROUP", supported_os |-> SUPPORTED_OS, names |-> ns]

FileSources == {FileSource(os) : os \in OsChoices}
GroupSources == {GroupSource(ns) : ns \in SeqsUpTo(AllNames, MaxGroupLen)}

Definition(n, os, srcs) == [name |-> n, supported_os |-> os, sources |-> srcs]

(* G is any artifact over file and group sources; X is an artifact over    *)
(* file sources that may refer back to G.                                  *)
DefinitionsOfG ==
    {Definition("G", os, srcs) :
        os \in OsChoices,
        srcs \in SeqsUpTo(FileSources \cup GroupSources, MaxSources)}

DefinitionsOfX ==
    {Definition("X", SUPPORTED_OS, srcs) :
        srcs \in SeqsUpTo(FileSources \cup {GroupSource(<<"G">>)}, MaxSources)}

Registries ==
    {[n \in DefinedNames |-> IF n = "G" THEN g ELSE x] :
        g \in DefinitionsOfG, x \in DefinitionsOfX}


-----------------------------------------------------------------------------
(* Python values: t is the value's type, v what it holds (a string, a      *)
(* sequence for a list, a function for a dict).                            *)
Val(t, v) == [t |-> t, v |-> v]

None == Val("NoneType", "None")
Str(x) == Val("str", x)
List(x) == Val("list", x)
Dict(x) == Val("dict", x)
IntVal(x) == Val("int", x)

(* definitions.SUPPORTED_OS of the artifacts library: the three platforms, *)
(* in a collection type of the library's own.                              *)
SupportedOsValue == Val("SUPPORTED_OS", <<"Darwin", "Linux", "Windows">>)

(* isinstance(value, required_type); str and unicode count as basestring.  *)
IsInstance(value, required_type) ==
    IF required_type = "basestring" THEN value.t \in {"str", "unicode"}
    ELSE value.t = required_type

(* required_type(): the zero value of a type, "" for basestring.           *)
ZeroValue(required_type) ==
    IF required_type = "basestring" THEN Str("") ELSE List(<<>>)

(* One entry of a class's _field_definitions. type "" and default None     *)
(* stand for the keys the entry does not give.                             *)
Field(name, type, default, optional, checker) ==
    [name |-> name, type |-> type, default |-> default, optional |-> optional,
     checker |-> checker]

RekallEFilterFields == <<
    Field("query", "basestring", None, FALSE, ""),
    Field("query_parameters", "", List(<<>>), TRUE, ""),
    Field("fields", "list", None, FALSE, ""),
    Field("type_name", "basestring", None, FALSE, ""),
    Field("supported_os", "", SupportedOsValue, TRUE, "") >>

FileSourceFields == <<
    Field("paths", "", List(<<>>), FALSE, ""),
    Field("separator", "basestring", Str("/"), TRUE, ""),
    Field("supported_os", "", SupportedOsValue, TRUE, "") >>

ArtifactGroupFields == <<
    Field("names", "list", None, FALSE, ""),
    Field("supported_os", "", SupportedOsValue, TRUE, "") >>

ArtifactDefinitionFields == <<
    Field("name", "basestring", None, FALSE, ""),
    Field("doc", "basestring", None, FALSE, ""),
    Field("labels", "", List(<<>>), TRUE, "CheckLabels"),
    Field("sources", "", List(<<>>), FALSE, "BuildSources"),
    Field("supported_os", "", None, TRUE, "SupportedOS"),
    Field("conditions", "", List(<<>>), TRUE, ""),
    Field("returned_types", "", List(<<>>), TRUE, ""),
    Field("provides", "list", None, TRUE, ""),
    Field("urls", "list", None, TRUE, "") >>

(* The type and the default _LoadFieldDefinitions works with: a missing    *)
(* default is the zero value of the type, a missing type the default's.    *)
IsNone(x) == x.t = "NoneType"

EffectiveDefault(field) ==
    IF IsNone(field.default) /\ field.type # "" THEN ZeroValue(field.type)
    ELSE field.default

EffectiveType(field) ==
    IF field.type = "" /\ ~IsNone(EffectiveDefault(field))
    THEN EffectiveDefault(field).t
    ELSE field.type

(* The outcome of a constructor or a checker: the value, and for a checker *)
(* the further attributes it sets on the object.                           *)
EmptyObject == [k \in {} |-> None]

Built(x) == [error |-> "", value |-> x, attrs |-> EmptyObject]
Failed(e) == [error |-> e, value |-> None, attrs |-> EmptyObject]

(* The constants of the artifacts library the loaders consult. *)
TOP_LEVEL_KEYS ==
    {"name", "doc", "labels", "sources", "supported_os", "conditions",
     "returned_types", "provides", "urls"}

LABELS == {"Logs", "Software", "System", "Users"}

TYPE_INDICATOR_REKALL == "REKALL_EFILTER"
TYPE_INDICATOR_FILE == "FILE"
TYPE_INDICATOR_ARTIFACT_GROUP == "ARTIFACT_GROUP"

allowed_types == {"int", "unicode", "str", "float", "any"}

With(obj, k, x) == [j \in DOMAIN obj \cup {k} |-> IF j = k THEN x ELSE obj[j]]

Merge(obj, more) ==
    [j \in DOMAIN obj \cup DOMAIN more |-> IF j \in DOMAIN more THEN more[j] ELSE obj[j]]

RECURSIVE LoadFieldDefinitions(_, _, _, _)

(* SourceType.__init__: the type tag, then the attributes' fields. *)
SourceTypeInit(fields, source_definition) ==
    IF "attributes" \notin DOMAIN source_definition THEN Failed("KeyError")
    ELSE LoadFieldDefinitions(fields, 1, source_definition["attributes"].v,
                              With(EmptyObject, "type_indicator",
                                   Str(source_definition["type"])))

(* RekallEFilterArtifacts.__init__: every column has a name and one of     *)
(* the allowed types.                                                      *)
ColumnOk(column) ==
    /\ "name" \in DOMAIN column
    /\ "type" \in DOMAIN column
    /\ column["type"] \in allowed_types

RekallEFilterInit(source_definition) ==
    LET r == SourceTypeInit(RekallEFilterFields, source_definition)
    IN  IF r.error # "" THEN r
        ELSE IF \E k \in 1..Len(r.value["fields"].v) : ~ColumnOk(r.value["fields"].v[k])
             THEN Failed("FormatError")
        ELSE r

SOURCE_TYPES == {TYPE_INDICATOR_REKALL, TYPE_INDICATOR_FILE, TYPE_INDICATOR_ARTIFACT_GROUP}

SourceInit(source_definition) ==
    CASE source_definition["type"] = TYPE_INDICATOR_REKALL ->
             RekallEFilterInit(source_definition)
      [] source_definition["type"] = TYPE_INDICATOR_FILE ->
             SourceTypeInit(FileSourceFields, source_definition)
      [] OTHER -> SourceTypeInit(ArtifactGroupFields, source_definition)

(* ArtifactDefinition.BuildSources over sources[i..]: result holds the     *)
(* sources built so far, unsupported the type names without a class.       *)
RECURSIVE BuildSourcesFrom(_, _, _, _)
BuildSourcesFrom(sources, i, result, unsupported) ==
    IF i > Len(sources)
    THEN IF result = <<>> THEN Failed("FormatError")
         ELSE [error |-> "", value |-> List(result),
               attrs |-> With(EmptyObject, "unsupported_source_types", List(unsupported))]
    ELSE LET source == sources[i]
         IN  IF source.t # "dict" THEN Failed("FormatError")
             ELSE IF "type" \notin DOMAIN source.v THEN Failed("FormatError")
             ELSE IF source.v["type"] \in SOURCE_TYPES
                  THEN LET r == SourceInit(source.v)
                       IN  IF r.error # "" THEN r
                           ELSE BuildSourcesFrom(sources, i + 1,
                                                 Append(result, r.value), unsupported)
             ELSE BuildSourcesFrom(sources, i + 1, result,
                                   Append(unsupported, source.v["type"]))

BuildSources(art_definition) ==
    BuildSourcesFrom(art_definition["sources"].v, 1, <<>>, <<>>)

(* set(x) of a list, or of a string (its characters, none of them a label  *)
(* or a platform name).                                                    *)
Elements(x) == IF x.t = "str" THEN {"a character"} ELSE {x.v[k] : k \in 1..Len(x.v)}

(* ArtifactDefinition.CheckLabels: the labels as given, the unknown ones   *)
(* noted.                                                                  *)
CheckLabels(art_definition) ==
    LET labels == IF "labels" \in DOMAIN art_definition THEN art_definition["labels"]
                  ELSE List(<<>>)
    IN  [error |-> "", value |-> labels,
         attrs |-> With(EmptyObject, "undefined_labels",
                        Val("set", Elements(labels) \ LABELS))]

(* ArtifactDefinition.SupportedOS: the given platforms, all of them known. *)

SupportedOS(art_definition) ==
    LET given == IF "supported_os" \in DOMAIN art_definition
                 THEN art_definition["supported_os"] ELSE SupportedOsValue
    IN  IF given.t \notin {"list", "str", "SUPPORTED_OS"} THEN Failed("TypeError")
        ELSE IF Elements(given) \ Elements(SupportedOsValue) # {}
             THEN Failed("FormatError")
        ELSE Built(given)

RunChecker(checker, art_definition) ==
    CASE checker = "CheckLabels" -> CheckLabels(art_definition)
      [] checker = "BuildSources" -> BuildSources(art_definition)
      [] OTHER -> SupportedOS(art_definition)

(* data.get(name, default) *)
GetOrNone(given, name, default) ==
    IF name \in DOMAIN given THEN given[name] ELSE None

Get(given, name, default) ==
    IF name \in DOMAIN given THEN given[name] ELSE default

(* _FieldDefinitionValidator._LoadFieldDefinitions over fields[i..]. *)
MissingIsError(field, given) == ~field.optional /\ field.name \notin DOMAIN given

LoadFieldDefinitions(fields, i, given, obj) ==
    IF i > Len(fields) THEN Built(obj)
    ELSE LET field == fields[i]
             default == EffectiveDefault(field)
             required_type == EffectiveType(field)
             value == Get(given, field.name, default)
         IN  IF MissingIsError(field, given) THEN Failed("FormatError")
             ELSE IF ~IsNone(default) /\ ~IsInstance(value, required_type)
                  THEN Failed("FormatError")
             ELSE IF field.checker # ""
                  THEN LET r == RunChecker(field.checker, given)
                       IN  IF r.error # "" THEN r
                           ELSE LoadFieldDefinitions(fields, i + 1, given,
                                                     With(Merge(obj, r.attrs),
                                                          field.name, r.value))
             ELSE LoadFieldDefinitions(fields, i + 1, given,
                                       With(obj, field.name, value))

(* ArtifactDefinition.__init__: whatever _LoadDefinition raises comes out  *)
(* as a FormatError.                                                       *)
LoadDefinition(raw) ==
    IF raw.t # "dict" THEN Failed("FormatError")
    ELSE IF DOMAIN raw.v \ TOP_LEVEL_KEYS # {} THEN Failed("FormatError")
    ELSE LoadFieldDefinitions(ArtifactDefinitionFields, 1, raw.v, EmptyObject)

ArtifactDefinitionInit(raw) ==
    LET r == LoadDefinition(raw)
    IN  IF r.error # "" THEN Failed("FormatError") ELSE Built(r.value)

-----------------------------------------------------------------------------
(* The raw mappings the constructors are tried on: for every field its     *)
(* absence, a value of the expected type and one of another type.          *)
Absent == Val("absent", "absent")

FromPairs(pairs) ==
    [k \in {pairs[i][1] : i \in {j \in 1..Len(pairs) : pairs[j][2].t # "absent"}} |->
        (CHOOSE i \in 1..Len(pairs) : pairs[i][1] = k) ]

Mapping(pairs) ==
    LET at == FromPairs(pairs) IN [k \in DOMAIN at |-> pairs[at[k]][2]]

SourceDefinition(type, attributes) ==
    [type |-> type, attributes |-> Dict(attributes)]

OsOptions == {Absent, Val("SUPPORTED_OS", <<"Linux">>), Str("Linux")}

Column(name, type) == [name |-> name, type |-> type]

FieldsOptions ==
    {Absent, Str("pid"),
     List(<<Column("pid", "int"), Column("name", "unicode")>>),
     List(<<[name |-> "pid"]>>),
     List(<<Column("pid", "long")>>)}

RekallEFilterInputs ==
    {SourceDefinition(TYPE_INDICATOR_REKALL,
        Mapping(<< <<"query", q>>, <<"query_parameters", qp>>, <<"fields", f>>,
                   <<"type_name", tn>>, <<"supported_os", os>> >>)) :
        q \in {Absent, Str("select * from pslist()"), IntVal(1)},
        qp \in {Absent, List(<<"a">>), Str("a")},
        f \in FieldsOptions,
        tn \in {Absent, Str("process"), IntVal(1)},
        os \in OsOptions}

FileSourceInputs ==
    {SourceDefinition(TYPE_INDICATOR_FILE,
        Mapping(<< <<"paths", p>>, <<"separator", sep>>, <<"supported_os", os>> >>)) :
        p \in {Absent, List(<<"/etc/passwd">>), Str("/etc/passwd")},
        sep \in {Absent, Str("\\"), IntVal(1)},
        os \in OsOptions}

ArtifactGroupInputs ==
    {SourceDefinition(TYPE_INDICATOR_ARTIFACT_GROUP,
        Mapping(<< <<"names", n>>, <<"supported_os", os>> >>)) :
        n \in {Absent, List(<<"X", "G">>), Str("X")},
        os \in OsOptions}

GoodFileSource ==
    Dict(SourceDefinition(TYPE_INDICATOR_FILE, Mapping(<< <<"paths", List(<<"/etc">>)>> >>)))

UnsupportedSource ==
    Dict(SourceDefinition("REGISTRY_KEY", Mapping(<< <<"keys", List(<<"HKLM">>)>> >>)))

SourcesOptions ==
    {Absent, Str("file"), List(<<>>),
     List(<<GoodFileSource>>),
     List(<<UnsupportedSource>>),
     List(<<GoodFileSource, UnsupportedSource>>),
     List(<<Dict(SourceDefinition(TYPE_INDICATOR_FILE, Mapping(<<>>)))>>),
     List(<<Str("file")>>)}

ArtifactDefinitionInputs ==
    {List(<<>>)} \cup
    {Dict(Mapping(<< <<"name", n>>, <<"doc", d>>, <<"labels", l>>, <<"sources", src>>,
                     <<"supported_os", os>>, <<"conditions", c>>,
                     <<"returned_types", rt>>, <<"provides", pr>>, <<"urls", u>>,
                     <<"comment", x>> >>)) :
        n \in {Absent, Str("A"), IntVal(1)},
        d \in {Absent, Str("an artifact")},
        l \in {Absent, List(<<"Logs">>), List(<<"Bogus">>), Str("Logs")},
        src \in SourcesOptions,
        os \in {Absent, List(<<"Linux">>), List(<<"Linux", "Plan9">>)},
        c \in {Absent, List(<<"os_major_version >= 6">>)},
        rt \in {Absent, List(<<"file_information">>)},
        pr \in {Absent, List(<<"os">>), Str("os")},
        u \in {Absent, List(<<"http://example.org">>)},
        x \in {Absent, Str("n/a")}}

Classes ==
    {"RekallEFilterArtifacts", "FileSourceType", "ArtifactGroupSourceType",
     "ArtifactDefinition"}

InputsOf(c) ==
    CASE c = "RekallEFilterArtifacts" -> {Dict(x) : x \in RekallEFilterInputs}
      [] c = "FileSourceType" -> {Dict(x) : x \in FileSourceInputs}
      [] c = "ArtifactGroupSourceType" -> {Dict(x) : x \in ArtifactGroupInputs}
      [] OTHER -> ArtifactDefinitionInputs

(* cls(data) *)
Construct(c, raw) ==
    IF c = "ArtifactDefinition" THEN ArtifactDefinitionInit(raw) ELSE SourceInit(raw.v)

NotConstructed == Failed("not constructed")

ValidatorIdle == cls = "" /\ data = None /\ validated = NotConstructed

(* No query source is being applied. *)
QueryIdle ==
    /\ efilter = EmptyObject
    /\ matches = <<>>
    /\ apply_result = None
    /\ match_i = 0
    /\ apply_status = "idle"
    /\ yielded = <<>>

(* No collector is being constructed. *)
LoaderIdle ==
    /\ session = [live |-> FALSE, os |-> "", system |-> ""]
    /\ art_definitions = <<>>
    /\ plugin_definitions = <<>>
    /\ profile = [definitions |-> <<>>, definitions_by_name |-> EmptyObject]
    /\ pc = "idle"
    /\ load_i = 0
    /\ exception = ""

(* No second collect() generator has been started. *)
StreamsIdle == streams = <<>> /\ active = 0

-----------------------------------------------------------------------------
(* Generator frames. A frame is one suspended generator: collect,          *)
(* collect_artifact, or a source's apply. i is the position of its loop.   *)
Frame(fn, name, names, source, i) ==
    [fn |-> fn, name |-> name, names |-> names, source |-> source, i |-> i]

CollectFrame(names) == Frame("collect", "", names, 0, 0)
CollectArtifactFrame(name) == Frame("collect_artifact", name, <<>>, 0, 0)
ApplyFrame(src, name, j) == Frame(src.type_indicator, name, src.names, j, 0)

Top(st) == st[Len(st)]
Pop(st) == SubSeq(st, 1, Len(st) - 1)
SetTop(st, f) == [st EXCEPT ![Len(st)] = f]

(* What the generators yield. source identifies the source object whose    *)
(* apply built the ArtifactResult.                                         *)
NoItem == [kind |-> "none", artifact_name |-> "", source |-> 0]
Divider(n) == [kind |-> "dict_divider", artifact_name |-> n, source |-> 0]
ArtifactResult(n, j) == [kind |-> "ArtifactResult", artifact_name |-> n, source |-> j]
DictResult(r) == [r EXCEPT !.kind = "dict_result"]

IsDict(x) == x.kind \in {"dict_divider", "dict_result"}

(* collect_artifact re-yields what a source's apply yields: a dict as it   *)
(* is, anything else wrapped as dict(result=...).                          *)
Wrap(x) == IF IsDict(x) THEN x ELSE DictResult(x)

(* The outcome of one step of the innermost generator. *)
Go(c) == [c |-> c, ev |-> "none", item |-> NoItem]
Yield(c, x) == [c |-> c, ev |-> "yield", item |-> x]
Stop(c) == [c |-> c, ev |-> "stop", item |-> NoItem]
RaiseSwallowed(c) == [c |-> [c EXCEPT !.stack = Pop(c.stack)], ev |-> "none", item |-> NoItem]

(* An exception (GetDefinitionByName's KeyError): no frame catches it, so  *)
(* every generator of the run is closed and the consumer sees it.          *)
Raise(c) == [c |-> [c EXCEPT !.stack = <<>>], ev |-> "raise", item |-> NoItem]

(* The innermost generator returns: its caller's loop goes on, and the     *)
(* consumer sees StopIteration when it was the outermost.                  *)
Return(c) ==
    LET st == Pop(c.stack)
    IN  IF st = <<>> THEN Stop([c EXCEPT !.stack = st])
                     ELSE Go([c EXCEPT !.stack = st])

Call(c, f) ==
    LET top == Top(c.stack)
    IN  [c EXCEPT !.stack = Append(SetTop(c.stack, [top EXCEPT !.i = top.i + 1]), f)]

-----------------------------------------------------------------------------
(* ArtifactsCollector.collect_artifact and its helpers. *)
AlreadySeenNever(name, s) == FALSE

AlreadySeen(name, s) == name \in s

MarkSeenForgets(name, s) == s

MarkSeen(name, s) == s \cup {name}

HasDefinition(name) == name \in DOMAIN definitions_by_name

GetDefinitionByName(name) == definitions_by_name[name]

DefinitionForUsAlways(definition) == TRUE

DefinitionForUs(definition) == supported_os \in definition.supported_os

SourceForUs(source) == supported_os \in source.supported_os

EvaluateConditions == TRUE

CollectArtifactEnter(c) ==
    LET f == Top(c.stack)
        c0 == [c EXCEPT !.calls = Append(c.calls, f.name)]
        c1 == [c0 EXCEPT !.seen = MarkSeen(f.name, c0.seen)]
    IN  IF AlreadySeen(f.name, c.seen) THEN Return(c0)
        ELSE IF ~HasDefinition(f.name) THEN Raise(c1)
        ELSE IF ~DefinitionForUs(GetDefinitionByName(f.name)) THEN Return(c1)
        ELSE IF ~EvaluateConditions THEN Return(c1)
        ELSE Yield([c1 EXCEPT !.stack = SetTop(c1.stack, [f EXCEPT !.i = 1])],
                   Divider(GetDefinitionByName(f.name).name))

CollectArtifactSourcesSkipOne(c) ==
    LET f == Top(c.stack)
        definition == GetDefinitionByName(f.name)
    IN  IF f.i > Len(definition.sources) THEN Return(c)
        ELSE LET source == definition.sources[f.i]
             IN  IF ~SourceForUs(source)
                 THEN Go([c EXCEPT !.stack = SetTop(c.stack, [f EXCEPT !.i = f.i + 1])])
                 ELSE Go(Call([c EXCEPT !.applied = Append(c.applied, <<f.name, f.i>>)],
                              ApplyFrame(source, definition.name, f.i)))

CollectArtifactSources(c) ==
    LET f == Top(c.stack)
        definition == GetDefinitionByName(f.name)
    IN  IF f.i > Len(definition.sources) THEN Return(c)
        ELSE LET source == definition.sources[f.i]
             IN  IF ~SourceForUs(source) THEN Return(c)
                 ELSE Go(Call([c EXCEPT !.applied = Append(c.applied, <<f.name, f.i>>)],
                              ApplyFrame(source, definition.name, f.i)))

collect_artifact(c) ==
    IF Top(c.stack).i = 0 THEN CollectArtifactEnter(c) ELSE CollectArtifactSources(c)

(* FileSourceType.apply (RekallEFilterArtifacts.apply alike): one          *)
(* ArtifactResult, then the end.                                           *)
FileApply(c) ==
    LET f == Top(c.stack)
    IN  IF f.i = 0
        THEN Yield([c EXCEPT !.stack = SetTop(c.stack, [f EXCEPT !.i = 1])],
                   ArtifactResult(f.name, f.source))
        ELSE Return(c)

(* ArtifactGroupSourceType.apply: collect_artifact of each name in order.  *)
NextNameReversed(f) == f.names[Len(f.names) - f.i]

NextName(f) == f.names[f.i + 1]

GroupApply(c) ==
    LET f == Top(c.stack)
    IN  IF f.i >= Len(f.names) THEN Return(c)
        ELSE Go(Call(c, CollectArtifactFrame(NextName(f))))

(* ArtifactsCollector.collect: reset seen, then each requested name.       *)
ResetSeen(s) == {}

collect(c) ==
    LET f == Top(c.stack)
    IN  IF f.i = 0
        THEN Go([c EXCEPT !.seen = ResetSeen(c.seen),
                          !.stack = SetTop(c.stack, [f EXCEPT !.i = 1])])
        ELSE IF f.i > Len(f.names) THEN Return(c)
        ELSE Go(Call(c, CollectArtifactFrame(f.names[f.i])))

Config == [stack |-> stack, seen |-> seen, calls |-> calls, applied |-> applied]

-----------------------------------------------------------------------------
(* A collector constructed on Linux over some registry, collect() called   *)
(* with the requested names and not yet pulled.                            *)
Init ==
    /\ definitions_by_name \in Registries
    /\ supported_os = "Linux"
    /\ artifacts \in SeqsUpTo(AllNames, MaxRequest)
    /\ seen = {}
    /\ stack = <<CollectFrame(artifacts)>>
    /\ status = "running"
    /\ out = <<>>
    /\ calls = <<>>
    /\ applied = <<>>
    /\ ValidatorIdle
    /\ QueryIdle
    /\ LoaderIdle
    /\ StreamsIdle

(* The innermost generator of the run is fn's and the consumer is pulling. *)
Running(fn) ==
    /\ status = "running"
    /\ Len(out) < MaxOut
    /\ Top(stack).fn = fn

(* The outcome s of a step takes effect; what is yielded passes up through *)
(* the enclosing collect_artifact and collect loops to the consumer.       *)
Commit(s) ==
    /\ stack' = s.c.stack
    /\ seen' = s.c.seen
    /\ calls' = s.c.calls
    /\ applied' = s.c.applied
    /\ out' = IF s.ev = "yield" THEN Append(out, Wrap(s.item)) ELSE out
    /\ status' = CASE s.ev = "stop" -> "done"
                   [] s.ev = "raise" -> "error"
                   [] OTHER -> "running"
    /\ UNCHANGED <<definitions_by_name, supported_os, artifacts>>
    /\ UNCHANGED <<validatorVars, queryVars, loaderVars, streamVars>>

CollectStep == Running("collect") /\ Commit(collect(Config))

CollectArtifactStep == Running("collect_artifact") /\ Commit(collect_artifact(Config))

GroupApplyStep == Running("ARTIFACT_GROUP") /\ Commit(GroupApply(Config))

FileApplyStep == Running("FILE") /\ Commit(FileApply(Config))

(* collect() is called again on the same collector once a run has ended.   *)
Collect ==
    /\ status \in {"done", "error"}
    /\ stack' = <<CollectFrame(artifacts)>>
    /\ status' = "running"
    /\ out' = <<>>
    /\ calls' = <<>>
    /\ applied' = <<>>
    /\ UNCHANGED <<definitions_by_name, supported_os, artifacts, seen>>
    /\ UNCHANGED <<validatorVars, queryVars, loaderVars, streamVars>>

Next ==
    \/ CollectStep
    \/ CollectArtifactStep
    \/ GroupApplyStep
    \/ FileApplyStep
    \/ Collect

Spec == Init /\ [][Next]_vars

(* The runs that nothing cuts short: every definition and every source    *)
(* supports the collector's platform. The consumer goes on pulling as long *)
(* as the run has not ended.                                               *)
AllSupported ==
    \A n \in DOMAIN definitions_by_name :
        /\ supported_os \in definitions_by_name[n].supported_os
        /\ \A j \in 1..Len(definitions_by_name[n].sources) :
               supported_os \in definitions_by_name[n].sources[j].supported_os

FairInit == Init /\ AllSupported

FairSpec == FairInit /\ [][Next]_vars /\ WF_vars(Next)

-----------------------------------------------------------------------------
(* The constructors of the validated classes, each on every raw mapping.   *)
CollectorIdle ==
    /\ definitions_by_name = <<>>
    /\ supported_os = ""
    /\ artifacts = <<>>
    /\ seen = {}
    /\ stack = <<>>
    /\ status = "idle"
    /\ out = <<>>
    /\ calls = <<>>
    /\ applied = <<>>

ValidateInit ==
    /\ cls \in Classes
    /\ data \in InputsOf(cls)
    /\ validated = NotConstructed
    /\ CollectorIdle
    /\ QueryIdle
    /\ LoaderIdle
    /\ StreamsIdle

ConstructSource ==
    /\ validated = NotConstructed
    /\ cls # "ArtifactDefinition"
    /\ validated' = Construct(cls, data)
    /\ UNCHANGED <<cls, data, collectorVars, queryVars, loaderVars, streamVars>>

ConstructDefinition ==
    /\ validated = NotConstructed
    /\ cls = "ArtifactDefinition"
    /\ validated' = Construct(cls, data)
    /\ UNCHANGED <<cls, data, collectorVars, queryVars, loaderVars, streamVars>>

ValidateNext == ConstructSource \/ ConstructDefinition

ValidateSpec == ValidateInit /\ [][ValidateNext]_vars

-----------------------------------------------------------------------------
(* RekallEFilterArtifacts.apply: the matches of the query become the rows  *)
(* of one ArtifactResult.                                                  *)
MaxMatches == 2

(* int(value), float(value), unicode(value), str(value) on the values a    *)
(* match may hold: an integer, or a string that is not a numeral.          *)
Decimal(n) == IF n = 0 THEN "0" ELSE "7"

Coerce(type, value) ==
    CASE type = "int" ->
             IF value.t = "int" THEN Built(value) ELSE Failed("ValueError")
      [] type = "float" ->
             IF value.t = "int" THEN Built(Val("float", value.v))
             ELSE Failed("ValueError")
      [] type = "unicode" ->
             Built(Val("unicode", IF value.t = "int" THEN Decimal(value.v) ELSE value.v))
      [] OTHER ->
             Built(Str(IF value.t = "int" THEN Decimal(value.v) ELSE value.v))

(* match.get(name) *)
MatchGet(match, name) == IF name \in DOMAIN match THEN match[name] ELSE None

(* The loop over self.fields that fills row, from column k on. *)
RECURSIVE BuildRow(_, _, _, _)
BuildRow(columns, k, match, row) ==
    IF k > Len(columns) THEN Built(row)
    ELSE LET name == columns[k]["name"]
             value == MatchGet(match, name)
         IN  IF IsNone(value) THEN BuildRow(columns, k + 1, match, row)
             ELSE LET x == Coerce(columns[k]["type"], value)
                  IN  IF x.error # "" THEN x
                      ELSE BuildRow(columns, k + 1, match, With(row, name, x.value))

(* ArtifactResult.__init__ *)
NewArtifactResult(artifact_name, result_type, columns) ==
    [artifact_name |-> artifact_name, result_type |-> result_type,
     results |-> <<>>, fields |-> columns]

(* ArtifactResult.add_result: an empty row is not kept. *)
add_result_unconditionally(res, row) ==
    [res EXCEPT !.results = Append(@, row)]

add_result(res, row) ==
    IF row # EmptyObject THEN [res EXCEPT !.results = Append(@, row)] ELSE res

(* add_result called with the row as keywords: a keyword named self       *)
(* collides with the method's own parameter.                               *)
CallAddResult(res, row) ==
    IF "self" \in DOMAIN row THEN Failed("TypeError") ELSE Built(add_result(res, row))

(* The query sources apply is run on, each built by its constructor, and   *)
(* the matches the query executor may return.                              *)
ColumnsChoices ==
    {<<>>,
     <<Column("pid", "int")>>,
     <<Column("pid", "float"), Column("name", "unicode")>>,
     <<Column("pid", "any"), Column("pid", "str")>>,
     <<Column("name", "unicode"), Column("self", "str")>>}

QuerySource(columns) ==
    RekallEFilterInit(SourceDefinition(TYPE_INDICATOR_REKALL,
        Mapping(<< <<"query", Str("select * from pslist()")>>,
                   <<"fields", List(columns)>>,
                   <<"type_name", Str("process")>> >>))).value

MatchChoices ==
    {Mapping(<< <<"pid", p>>, <<"name", n>>, <<"self", x>> >>) :
        p \in {Absent, None, IntVal(0), Str("x")},
        n \in {Absent, None, Str("")},
        x \in {Absent, Str("x")}}

QueryInit ==
    /\ efilter \in {QuerySource(columns) : columns \in ColumnsChoices}
    /\ matches \in {<<>>} \cup SeqsUpTo(MatchChoices, MaxMatches)
    /\ apply_result = None
    /\ match_i = 0
    /\ apply_status = "called"
    /\ yielded = <<>>
    /\ CollectorIdle
    /\ ValidatorIdle
    /\ LoaderIdle
    /\ StreamsIdle

(* The consumer's first pull: the result is made and the query is solved.  *)
ApplyEnter ==
    /\ apply_status = "called"
    /\ apply_result' = NewArtifactResult("A", efilter["type_name"].v, efilter["fields"].v)
    /\ apply_status' = "solving"
    /\ UNCHANGED <<efilter, matches, match_i, yielded>>
    /\ UNCHANGED <<collectorVars, validatorVars, loaderVars, streamVars>>

(* One turn of the loop over the matches. *)
ApplyMatch ==
    /\ apply_status = "solving"
    /\ match_i < Len(matches)
    /\ LET row == BuildRow(efilter["fields"].v, 1, matches[match_i + 1], EmptyObject)
           added == IF row.error # "" THEN row ELSE CallAddResult(apply_result, row.value)
       IN  IF added.error # ""
           THEN apply_status' = added.error /\ UNCHANGED <<apply_result, match_i>>
           ELSE /\ apply_result' = added.value
                /\ match_i' = match_i + 1
                /\ UNCHANGED apply_status
    /\ UNCHANGED <<efilter, matches, yielded>>
    /\ UNCHANGED <<collectorVars, validatorVars, loaderVars, streamVars>>

(* yield result *)
ApplyYield ==
    /\ apply_status = "solving"
    /\ match_i = Len(matches)
    /\ yielded' = Append(yielded, apply_result)
    /\ apply_status' = "yielded"
    /\ UNCHANGED <<efilter, matches, apply_result, match_i>>
    /\ UNCHANGED <<collectorVars, validatorVars, loaderVars, streamVars>>

(* The next pull ends the generator. *)
ApplyReturn ==
    /\ apply_status = "yielded"
    /\ apply_status' = "done"
    /\ UNCHANGED <<efilter, matches, apply_result, match_i, yielded>>
    /\ UNCHANGED <<collectorVars, validatorVars, loaderVars, streamVars>>

QueryNext == ApplyEnter \/ ApplyMatch \/ ApplyYield \/ ApplyReturn

QuerySpec == QueryInit /\ [][QueryNext]_vars

-----------------------------------------------------------------------------
(* The construction of a collector: the artifacts profile is loaded, the   *)
(* inline definitions are added to it, the platform is determined.         *)
MaxDefinitions == 2

(* ArtifactProfile.__init__ *)
ArtifactProfileInit == [definitions |-> <<>>, definitions_by_name |-> EmptyObject]

(* ArtifactProfile.AddDefinition: what ArtifactDefinition raises passes    *)
(* through, the profile untouched.                                         *)
AddDefinition(p, definition) ==
    LET artifact == ArtifactDefinitionInit(definition)
    IN  IF artifact.error # "" THEN [error |-> artifact.error, profile |-> p]
        ELSE [error |-> "",
              profile |-> [definitions |-> Append(p.definitions, artifact.value),
                           definitions_by_name |->
                               With(p.definitions_by_name, definition.v["name"].v,
                                    artifact.value)]]

(* definition.get("name") in the handler that logs a skipped definition:   *)
(* only a mapping has a get.                                               *)
LogSkipped(definition) == IF definition.t = "dict" THEN "" ELSE "AttributeError"

(* The raw definitions: two that validate, a mapping without sources, and  *)
(* a document that is a list and no mapping.                               *)
RawDefinition(n) ==
    Dict(Mapping(<< <<"name", Str(n)>>, <<"doc", Str("d")>>,
                    <<"sources", List(<<GoodFileSource>>)>> >>))

RawDefinitions ==
    {RawDefinition("A"), RawDefinition("B"),
     Dict(Mapping(<< <<"name", Str("C")>>, <<"doc", Str("d")>> >>)),
     List(<<Str("A")>>)}

(* The session: live mode, the os metadata of its profile, and what        *)
(* platform.system() returns on the machine, "" when it cannot tell.       *)
Sessions ==
    [live : BOOLEAN,
     os : {"linux", "windows", "darwin", "unknown"},
     system : {"Linux", "Windows", "Darwin", "FreeBSD", ""}]

LoadInit ==
    /\ session \in Sessions
    /\ art_definitions \in {<<>>} \cup SeqsUpTo(RawDefinitions, MaxDefinitions)
    /\ plugin_definitions \in {<<>>} \cup SeqsUpTo(RawDefinitions, MaxDefinitions)
    /\ profile = ArtifactProfileInit
    /\ pc = "LoadIntoProfile"
    /\ load_i = 0
    /\ exception = ""
    /\ CollectorIdle
    /\ ValidatorIdle
    /\ QueryIdle
    /\ StreamsIdle

(* One turn of LoadIntoProfile's loop: a FormatError is caught and the     *)
(* definition logged; what the handler itself raises is not caught.        *)
LoadIntoProfile ==
    /\ pc = "LoadIntoProfile"
    /\ load_i < Len(art_definitions)
    /\ LET definition == art_definitions[load_i + 1]
           added == AddDefinition(profile, definition)
       IN  IF added.error = ""
           THEN /\ profile' = added.profile
                /\ load_i' = load_i + 1
                /\ UNCHANGED <<pc, exception>>
           ELSE IF LogSkipped(definition) = ""
                THEN /\ load_i' = load_i + 1
                     /\ UNCHANGED <<profile, pc, exception>>
           ELSE /\ exception' = LogSkipped(definition)
                /\ pc' = "error"
                /\ UNCHANGED <<profile, load_i>>
    /\ UNCHANGED <<session, art_definitions, plugin_definitions>>
    /\ UNCHANGED <<collectorVars, validatorVars, queryVars, streamVars>>

(* return profile: the collector's __init__ goes on to the inline          *)
(* definitions.                                                            *)
LoadProfile ==
    /\ pc = "LoadIntoProfile"
    /\ load_i = Len(art_definitions)
    /\ pc' = "definitions"
    /\ load_i' = 0
    /\ UNCHANGED <<session, art_definitions, plugin_definitions, profile, exception>>
    /\ UNCHANGED <<collectorVars, validatorVars, queryVars, streamVars>>

(* One turn of __init__'s loop over the inline definitions: nothing        *)
(* catches what AddDefinition raises.                                      *)
AddInlineDefinition ==
    /\ pc = "definitions"
    /\ load_i < Len(plugin_definitions)
    /\ LET added == AddDefinition(profile, plugin_definitions[load_i + 1])
       IN  IF added.error = ""
           THEN /\ profile' = added.profile
                /\ load_i' = load_i + 1
                /\ UNCHANGED <<pc, exception>>
           ELSE /\ exception' = added.error
                /\ pc' = "error"
                /\ UNCHANGED <<profile, load_i>>
    /\ UNCHANGED <<session, art_definitions, plugin_definitions>>
    /\ UNCHANGED <<collectorVars, validatorVars, queryVars, streamVars>>

(* The rest of __init__: seen is emptied and the platform determined, in   *)
(* live mode from platform.system(), else from the profile's os.           *)
PlatformOf(s) ==
    CASE s.live -> s.system
      [] ~s.live /\ s.os = "linux" -> "Linux"
      [] ~s.live /\ s.os = "windows" -> "Windows"
      [] ~s.live /\ s.os = "darwin" -> "Darwin"
      [] OTHER -> "PluginError"

DeterminePlatform ==
    /\ pc = "definitions"
    /\ load_i = Len(plugin_definitions)
    /\ seen' = {}
    /\ IF ~session.live /\ session.os \notin {"linux", "windows", "darwin"}
       THEN /\ exception' = "PluginError"
            /\ pc' = "error"
            /\ UNCHANGED supported_os
       ELSE /\ supported_os' = PlatformOf(session)
            /\ pc' = "constructed"
            /\ UNCHANGED exception
    /\ UNCHANGED <<definitions_by_name, artifacts, stack, status, out, calls, applied>>
    /\ UNCHANGED <<session, art_definitions, plugin_definitions, profile, load_i>>
    /\ UNCHANGED <<validatorVars, queryVars, streamVars>>

LoadNext == LoadIntoProfile \/ LoadProfile \/ AddInlineDefinition \/ DeterminePlatform

LoadSpec == LoadInit /\ [][LoadNext]_vars

-----------------------------------------------------------------------------
(* Two collect() generators started on one collector: self.seen and the    *)
(* requested names belong to the collector, the frames to each generator.  *)
(* A pull runs its generator up to the next yield, return or exception     *)
(* before the consumer pulls again, from either stream.                    *)
Streams == {1, 2}

Stream(st, s, o, c, a) ==
    [stack |-> st, status |-> s, out |-> o, calls |-> c, applied |-> a]

StreamConfig(i) ==
    [stack |-> streams[i].stack, seen |-> seen, calls |-> streams[i].calls,
     applied |-> streams[i].applied]

InterleavedInit ==
    /\ definitions_by_name \in Registries
    /\ supported_os = "Linux"
    /\ artifacts \in SeqsUpTo(AllNames, MaxRequest)
    /\ seen = {}
    /\ AllSupported
    /\ streams = [i \in Streams |->
                     Stream(<<CollectFrame(artifacts)>>, "running", <<>>, <<>>, <<>>)]
    /\ active = 0
    /\ stack = <<>>
    /\ status = "idle"
    /\ out = <<>>
    /\ calls = <<>>
    /\ applied = <<>>
    /\ ValidatorIdle
    /\ QueryIdle
    /\ LoaderIdle

(* Stream i may take a step of fn: no other stream's pull is under way.    *)
Pulling(i, fn) ==
    /\ active \in {0, i}
    /\ streams[i].status = "running"
    /\ Len(streams[i].out) < MaxOut
    /\ Top(streams[i].stack).fn = fn

(* The outcome s of a step of stream i takes effect; the pull is over when *)
(* the step yields, ends the generator or raises.                          *)
StreamCommit(i, s) ==
    /\ streams' = [streams EXCEPT ![i] =
          Stream(s.c.stack,
                 CASE s.ev = "stop" -> "done"
                   [] s.ev = "raise" -> "error"
                   [] OTHER -> "running",
                 IF s.ev = "yield" THEN Append(streams[i].out, Wrap(s.item))
                                   ELSE streams[i].out,
                 s.c.calls, s.c.applied)]
    /\ seen' = s.c.seen
    /\ active' = IF s.ev = "none" THEN i ELSE 0
    /\ UNCHANGED <<definitions_by_name, supported_os, artifacts, stack, status, out,
                   calls, applied>>
    /\ UNCHANGED <<validatorVars, queryVars, loaderVars>>

StreamCollectStep ==
    \E i \in Streams : Pulling(i, "collect") /\ StreamCommit(i, collect(StreamConfig(i)))

StreamCollectArtifactStep ==
    \E i \in Streams :
        Pulling(i, "collect_artifact") /\ StreamCommit(i, collect_artifact(StreamConfig(i)))

StreamGroupApplyStep ==
    \E i \in Streams :
        Pulling(i, "ARTIFACT_GROUP") /\ StreamCommit(i, GroupApply(StreamConfig(i)))

StreamFileApplyStep ==
    \E i \in Streams : Pulling(i, "FILE") /\ StreamCommit(i, FileApply(StreamConfig(i)))

InterleavedNext ==
    \/ StreamCollectStep
    \/ StreamCollectArtifactStep
    \/ StreamGroupApplyStep
    \/ StreamFileApplyStep

InterleavedSpec == InterleavedInit /\ [][InterleavedNext]_vars

-----------------------------------------------------------------------------
(* Helpers of the properties. *)
Range(seq) == {seq[k] : k \in 1..Len(seq)}

NoDuplicates(seq) == \A p, q \in 1..Len(seq) : seq[p] = seq[q] => p = q

Occurrences(seq, x) == Cardinality({k \in 1..Len(seq) : seq[k] = x})

Last(seq) == seq[Len(seq)]

(* The consumer's cap on the stream is never what ends a run. *)
OutBelowCap == Len(out) < MaxOut

(* C1: within one collect run every artifact name is expanded at most      *)
(* once: no divider and no source's result occurs twice in the stream, and *)
(* no source is applied twice, however often the name is requested or      *)
(* reached through groups.                                                 *)
C1_ExpandedAtMostOnce ==
    /\ NoDuplicates(out)
    /\ NoDuplicates(applied)
    /\ \A n \in AllNames : Occurrences(out, Divider(n)) <= 1

(* A finished run in which an expanded artifact was entered again (asked   *)
(* for twice, reached by a second path, or listed in its own group).       *)
C1_Witness ==
    /\ status = "done"
    /\ \E n \in DefinedNames :
          /\ Occurrences(calls, n) >= 2
          /\ Divider(n) \in Range(out)
          /\ \E j \in 1..MaxSources : <<n, j>> \in Range(applied)

(* C3: a call of collect_artifact with a name the registry does not define *)
(* raises: it is the last call of the run, the run has ended with the      *)
(* error, and no generator is left to go on.                               *)
C3_UndefinedNameRaises ==
    \A k \in 1..Len(calls) :
        ~HasDefinition(calls[k]) =>
            /\ k = Len(calls)
            /\ status = "error"
            /\ stack = <<>>

(* The undefined name was reached through an artifact-group source, after  *)
(* part of the stream had been emitted.                                    *)
C3_Witness ==
    /\ status = "error"
    /\ out # <<>>
    /\ ~HasDefinition(Last(calls))
    /\ Last(calls) \notin Range(artifacts)

(* C5: an artifact whose supported_os leaves out the collector's platform  *)
(* emits no divider and no result, has none of its sources applied, and    *)
(* raises nothing: an error comes from an undefined name only.             *)
C5_UnsupportedArtifactSilent ==
    /\ \A n \in DOMAIN definitions_by_name :
          supported_os \notin definitions_by_name[n].supported_os =>
              /\ \A p \in 1..Len(out) : out[p].artifact_name # n
              /\ \A p \in 1..Len(applied) : applied[p][1] # n
    /\ status = "error" => Last(calls) \notin DOMAIN definitions_by_name

(* Such an artifact, one with a group source, was called in a run that     *)
(* ended normally.                                                         *)
C5_Witness ==
    /\ status = "done"
    /\ \E n \in Range(calls) \cap DOMAIN definitions_by_name :
          /\ supported_os \notin definitions_by_name[n].supported_os
          /\ \E j \in 1..Len(definitions_by_name[n].sources) :
                definitions_by_name[n].sources[j].type_indicator = "ARTIFACT_GROUP"
    /\ out # <<>>

(* C10: the first source of an expanded artifact whose supported_os leaves *)
(* out the platform ends that artifact: it and every later source are      *)
(* never applied, every earlier source has been applied once the run is    *)
(* over, and no error is raised by it.                                     *)
Unsupported(n) ==
    {j \in 1..Len(definitions_by_name[n].sources) :
        supported_os \notin definitions_by_name[n].sources[j].supported_os}

C10_SourceMismatchEndsArtifact ==
    /\ \A n \in DOMAIN definitions_by_name :
          \A j \in Unsupported(n) :
              /\ \A j2 \in j..Len(definitions_by_name[n].sources) :
                    <<n, j2>> \notin Range(applied)
              /\ (status = "done" /\ Divider(n) \in Range(out)) =>
                    \A j1 \in 1..(j - 1) :
                        j1 \notin Unsupported(n) => <<n, j1>> \in Range(applied)
    /\ status = "error" => Last(calls) \notin DOMAIN definitions_by_name

(* An expanded artifact whose first source does not support the platform   *)
(* and whose second does, and one whose second does not and whose first    *)
(* has emitted its result.                                                 *)
C10_Witness ==
    /\ status = "done"
    /\ \E n \in DOMAIN definitions_by_name :
          /\ Divider(n) \in Range(out)
          /\ Unsupported(n) = {1}
          /\ Len(definitions_by_name[n].sources) = 2
    /\ \E n \in DOMAIN definitions_by_name :
          /\ Unsupported(n) = {2}
          /\ <<n, 1>> \in Range(applied)

-----------------------------------------------------------------------------
(* The stream a run is to produce, by structural recursion: the requested  *)
(* names in order; for an artifact its divider, then its sources in        *)
(* declaration order; for a group source its names in order, in place.     *)
Ok(o, s) == [out |-> o, seen |-> s, err |-> FALSE]

RECURSIVE ExpectedNames(_, _, _), ExpectedArtifact(_, _), ExpectedSources(_, _, _)

ExpectedNames(names, k, s) ==
    IF k > Len(names) THEN Ok(<<>>, s)
    ELSE LET a == ExpectedArtifact(names[k], s)
         IN  IF a.err THEN a
             ELSE LET r == ExpectedNames(names, k + 1, a.seen)
                  IN  [out |-> a.out \o r.out, seen |-> r.seen, err |-> r.err]

ExpectedArtifact(n, s) ==
    IF n \in s THEN Ok(<<>>, s)
    ELSE IF n \notin DOMAIN definitions_by_name
         THEN [out |-> <<>>, seen |-> s \cup {n}, err |-> TRUE]
    ELSE IF supported_os \notin definitions_by_name[n].supported_os
         THEN Ok(<<>>, s \cup {n})
    ELSE LET r == ExpectedSources(n, 1, s \cup {n})
         IN  [r EXCEPT !.out = <<Divider(n)>> \o r.out]

ExpectedSources(n, j, s) ==
    LET srcs == definitions_by_name[n].sources
    IN  IF j > Len(srcs) THEN Ok(<<>>, s)
        ELSE IF supported_os \notin srcs[j].supported_os THEN Ok(<<>>, s)
        ELSE LET a == IF srcs[j].type_indicator = "ARTIFACT_GROUP"
                      THEN ExpectedNames(srcs[j].names, 1, s)
                      ELSE Ok(<<DictResult(ArtifactResult(n, j))>>, s)
             IN  IF a.err THEN a
                 ELSE LET r == ExpectedSources(n, j + 1, a.seen)
                      IN  [out |-> a.out \o r.out, seen |-> r.seen, err |-> r.err]

ExpectedStream == ExpectedNames(artifacts, 1, {})

IsPrefix(a, b) == Len(a) <= Len(b) /\ a = SubSeq(b, 1, Len(a))

(* C8: the stream is the one fixed by the declaration order: requested     *)
(* names in request order, an artifact's divider before its results, its   *)
(* sources' results in source order, a group source's sub-artifacts (in    *)
(* the order of its names) at that source's position.                      *)
C8_DeclarationOrder ==
    /\ IsPrefix(out, ExpectedStream.out)
    /\ status = "done" => out = ExpectedStream.out /\ ~ExpectedStream.err
    /\ status = "error" => out = ExpectedStream.out /\ ExpectedStream.err
    /\ \A p \in 1..Len(out) :
          out[p].kind = "dict_result" =>
              \E q \in 1..(p - 1) : out[q] = Divider(out[p].artifact_name)
    /\ \A p, q \in 1..Len(out) :
          /\ p < q
          /\ out[p].kind = "dict_result"
          /\ out[q].kind = "dict_result"
          /\ out[p].artifact_name = out[q].artifact_name
          => out[p].source < out[q].source

(* A finished run over two requested names in which a group source with    *)
(* two names comes before a file source of the same artifact: the          *)
(* sub-artifact's rows lie between the divider and that file's result.     *)
C8_Witness ==
    /\ status = "done"
    /\ Len(artifacts) = 2
    /\ \E p, q, r \in 1..Len(out) :
          /\ p < q
          /\ q < r
          /\ out[p] = Divider("G")
          /\ out[q].artifact_name = "X"
          /\ out[q].kind = "dict_result"
          /\ out[r] = DictResult(ArtifactResult("G", 2))
    /\ Len(definitions_by_name["G"].sources[1].names) = 2

(* C2: when every name a group source lists is defined, a run that is      *)
(* pulled to its end ends (normally when the requested names are defined   *)
(* too); and collecting ["G"], G a group over ["X", "G"], emits G's        *)
(* divider, then X's rows once, and enters G a second time without         *)
(* expanding it.                                                           *)
GroupNamesDefined ==
    \A n \in DOMAIN definitions_by_name :
        \A j \in 1..Len(definitions_by_name[n].sources) :
            Range(definitions_by_name[n].sources[j].names) \subseteq DOMAIN definitions_by_name

SelfGroupScenario ==
    /\ artifacts = <<"G">>
    /\ definitions_by_name["G"] =
          Definition("G", SUPPORTED_OS, <<GroupSource(<<"X", "G">>)>>)
    /\ \A j \in 1..Len(definitions_by_name["X"].sources) :
          definitions_by_name["X"].sources[j] = FileSource(SUPPORTED_OS)

RowsOfX ==
    [j \in 1..Len(definitions_by_name["X"].sources) |-> DictResult(ArtifactResult("X", j))]

C2_Terminates ==
    /\ <>(status \in {"done", "error"})
    /\ [](status = "error" =>
             ~GroupNamesDefined \/ ~(Range(artifacts) \subseteq DOMAIN definitions_by_name))
    /\ [](SelfGroupScenario /\ status = "done" =>
             /\ out = <<Divider("G"), Divider("X")>> \o RowsOfX
             /\ calls = <<"G", "X", "G">>
             /\ applied = <<<<"G", 1>>>> \o [j \in 1..Len(RowsOfX) |-> <<"X", j>>])

C2_Witness == SelfGroupScenario /\ status = "done" /\ Len(out) > 2

-----------------------------------------------------------------------------
(* The validated classes' declared defaults. *)
FieldsOf(c) ==
    CASE c = "RekallEFilterArtifacts" -> RekallEFilterFields
      [] c = "FileSourceType" -> FileSourceFields
      [] c = "ArtifactGroupSourceType" -> ArtifactGroupFields
      [] OTHER -> ArtifactDefinitionFields

(* The mapping the fields are read from: a source's attributes, a          *)
(* definition's top level.                                                 *)
GivenOf(c, raw) == IF c = "ArtifactDefinition" THEN raw.v ELSE raw.v["attributes"].v

PutField(c, raw, name, x) ==
    IF c = "ArtifactDefinition" THEN Dict(With(raw.v, name, x))
    ELSE Dict(SourceDefinition(raw.v["type"], With(raw.v["attributes"].v, name, x)))

(* A value the field accepts. *)
GoodValue(c, name) ==
    CASE name = "supported_os" ->
             IF c = "ArtifactDefinition" THEN List(<<"Linux">>)
             ELSE Val("SUPPORTED_OS", <<"Linux">>)
      [] name = "sources" -> List(<<GoodFileSource>>)
      [] name = "fields" -> List(<<Column("pid", "int")>>)
      [] name \in {"query", "type_name", "separator", "name", "doc"} -> Str("x")
      [] OTHER -> List(<<"x">>)

ValEq(a, b) == a.t = b.t /\ a.v = b.v

DeclaresDefault(field) == ~IsNone(field.default)

StringLikeWithoutDefault(field) == field.type = "basestring" /\ IsNone(field.default)

Constructed == validated # NotConstructed /\ data.t = "dict"

(* The field is all the mapping lacks to be valid. *)
OnlyLacks(field) ==
    /\ field.name \notin DOMAIN GivenOf(cls, data)
    /\ Construct(cls, PutField(cls, data, field.name, GoodValue(cls, field.name))).error = ""

-----------------------------------------------------------------------------
(* The rows a query source's apply makes of its matches. *)
Columns == efilter["fields"].v

Declared == {Columns[k]["name"] : k \in 1..Len(Columns)}

(* The type that decides a column's value: its last declaration's. *)
TypeOf(name) ==
    LET k == CHOOSE j \in 1..Len(Columns) :
                 /\ Columns[j]["name"] = name
                 /\ \A later \in (j + 1)..Len(Columns) : Columns[later]["name"] # name
    IN  Columns[k]["type"]

(* The declared columns a match carries a value for. *)
Carried(match) == {n \in Declared : n \in DOMAIN match /\ ~IsNone(match[n])}

CarriesDeclared(match) == Carried(match) # {}

RowOf(match) == [n \in Carried(match) |-> Coerce(TypeOf(n), match[n]).value]

(* A carried value its column's type cannot be made of, or a carried       *)
(* column named self.                                                      *)
Unusable(match) ==
    \/ "self" \in Carried(match)
    \/ \E k \in 1..Len(Columns) :
           /\ Columns[k]["name"] \in Carried(match)
           /\ Coerce(Columns[k]["type"], match[Columns[k]["name"]]).error # ""

Yielded == apply_status \in {"yielded", "done"}

ApplyRaised == apply_status \in {"ValueError", "TypeError"}

(* C7 as stated: apply yields exactly one ArtifactResult tagged with       *)
(* type_name whose results hold exactly one row per match, in match order, *)
(* for every sequence of matches, a match that carries none of the         *)
(* declared columns included.                                              *)
C7_OneRowPerMatch ==
    /\ ~ApplyRaised
    /\ Yielded =>
           /\ yielded = <<apply_result>>
           /\ apply_result.result_type = efilter["type_name"].v
           /\ Len(apply_result.results) = Len(matches)
           /\ \A k \in 1..Len(matches) : apply_result.results[k] = RowOf(matches[k])

(* C7 amended: apply yields exactly one ArtifactResult tagged with         *)
(* type_name whose results hold, in match order, one row for every match   *)
(* that carries a value other than None for at least one declared column,  *)
(* the row holding exactly those columns coerced; a match that carries     *)
(* none leaves no row. When a carried value cannot be coerced to its       *)
(* column's type, or a carried column is named self, apply raises and      *)
(* yields nothing.                                                         *)
C7_OneRowPerCarryingMatch ==
    LET kept == SelectSeq(matches, CarriesDeclared)
    IN  /\ Yielded =>
               /\ yielded = <<apply_result>>
               /\ apply_result.result_type = efilter["type_name"].v
               /\ apply_result.results = [k \in 1..Len(kept) |-> RowOf(kept[k])]
               /\ \A k \in 1..Len(matches) : ~Unusable(matches[k])
        /\ ApplyRaised =>
               /\ yielded = <<>>
               /\ \E k \in 1..Len(matches) : Unusable(matches[k])

C7_Witness ==
    /\ Yielded
    /\ Len(matches) = 2
    /\ ~CarriesDeclared(matches[1])
    /\ CarriesDeclared(matches[2])
    /\ Len(apply_result.results) = 1

-----------------------------------------------------------------------------
(* What a load should leave in the registry: the definitions that          *)
(* validate, in order.                                                     *)
Validates(definition) == ArtifactDefinitionInit(definition).error = ""

ValidDefinitions(raws) ==
    LET valid == SelectSeq(raws, Validates)
    IN  [k \in 1..Len(valid) |-> ArtifactDefinitionInit(valid[k]).value]

LoadOver == pc \in {"constructed", "error"}

(* C4 as stated: for every sequence of raw definitions loaded into a       *)
(* registry, a definition that fails validation is skipped and never       *)
(* prevents the definitions after it from being loaded: no load ends in    *)
(* an exception of a definition, and after the load the registry holds     *)
(* exactly the definitions that validate, in order.                        *)
C4_InvalidDefinitionsSkipped ==
    /\ exception \notin {"FormatError", "AttributeError"}
    /\ LoadOver =>
           /\ profile.definitions = ValidDefinitions(art_definitions \o plugin_definitions)
           /\ \A k \in 1..Len(profile.definitions) :
                  profile.definitions[k]["name"].v \in DOMAIN profile.definitions_by_name

(* C9 as stated: a successfully constructed collector always has a         *)
(* platform that is one of Linux, Windows and Darwin, and a construction   *)
(* that cannot establish one fails with the environment error.             *)
C9_PlatformEnumerated ==
    /\ pc = "constructed" => supported_os \in SUPPORTED_OS
    /\ (pc = "error" /\ exception = "PluginError") => supported_os \notin SUPPORTED_OS

-----------------------------------------------------------------------------
(* C11 as stated: collect streams started on the same collector are        *)
(* independent: pulled in any interleaving, each stream emits every        *)
(* artifact at most once and equals the stream the same run produces when  *)
(* pulled alone from start to end.                                         *)
C11_StreamsIndependent ==
    \A i \in DOMAIN streams :
        /\ NoDuplicates(streams[i].out)
        /\ IsPrefix(streams[i].out, ExpectedStream.out)
        /\ streams[i].status = "done" =>
               streams[i].out = ExpectedStream.out /\ ~ExpectedStream.err
        /\ streams[i].status = "error" =>
               streams[i].out = ExpectedStream.out /\ ExpectedStream.err


=============================================================================
